---- MODULE Spec2Model ----
(***************************************************************************)
(* oxischeme: the analyzing evaluator (src/src/eval.rs) over the tagged    *)
(* value model (src/src/value.rs).                                         *)
(*                                                                         *)
(* A form is analyzed once into a Meaning; the Meaning is then run by the  *)
(* trampoline driver Meaning::evaluate against the global activation.      *)
(* Heap handles are abstracted to the structure they point at; symbols     *)
(* are interned, so symbol identity is name identity.                      *)
(***************************************************************************)
EXTENDS Integers, Sequences, FiniteSets, TLC

(***************************************************************************)
(* value.rs: enum Value                                                    *)
(***************************************************************************)
EmptyList == <<"EmptyList">>

Pair(a, d) == <<"Pair", a, d>>

String(s) == <<"String", s>>

Symbol(s) == <<"Symbol", s>>

Integer(i) == <<"Integer", i>>

Boolean(b) == <<"Boolean", b>>

Character(c) == <<"Character", c>>

Procedure(p) == <<"Procedure", p>>

new_integer(i) == Integer(i)

new_boolean(b) == Boolean(b)

\* Option::None of the accessors below.
None == <<"None">>

is_pair(v) == v[1] = "Pair"

is_atom(v) == ~is_pair(v)

car(v) == IF is_pair(v) THEN v[2] ELSE None

cdr(v) == IF is_pair(v) THEN v[3] ELSE None

\* Some(name) or None.
Some(x) == <<"Some", x>>

to_symbol(v) == IF v[1] = "Symbol" THEN Some(v[2]) ELSE None

to_pair(v) == IF is_pair(v) THEN v ELSE None

\* Cons::cadr, caddr, cadddr: None stands for the Err("bad c..r") result.
cddr(p) == cdr(cdr(p))

cdddr(p) == IF cddr(p) = None THEN None ELSE cdr(cddr(p))

cadr(p) == car(cdr(p))

caddr(p) == IF cddr(p) = None THEN None ELSE car(cddr(p))

cadddr(p) == IF cdddr(p) = None THEN None ELSE car(cdddr(p))

\* Value::len: the proper-list length, LenErr for Err(()).
LenErr == 0 - 1

\* An improper tail ends the count instead of failing it.
RECURSIVE len_counts_improper(_)
len_counts_improper(v) ==
    CASE v = EmptyList -> 0
      [] is_pair(v) -> LET cdr_len == len_counts_improper(v[3])
                       IN IF cdr_len = LenErr THEN LenErr ELSE cdr_len + 1
      [] v[1] \in {"Integer", "Boolean", "Character"} -> 0
      [] OTHER -> LenErr

RECURSIVE len(_)
len(v) ==
    CASE v = EmptyList -> 0
      [] is_pair(v) -> LET cdr_len == len(v[3])
                       IN IF cdr_len = LenErr THEN LenErr ELSE cdr_len + 1
      [] OTHER -> LenErr

\* value.rs: list() / list_helper
RECURSIVE list(_)
list(values) ==
    IF values = <<>> THEN EmptyList
    ELSE Pair(Head(values), list(Tail(values)))

(***************************************************************************)
(* value.rs: the heap records Cons and Procedure, and tracing.  A GcThing  *)
(* is the kind of the handle and what it points at.                        *)
(***************************************************************************)
Cons(a, d) == <<"Cons", a, d>>

ProcedureRecord(params, body, e) == <<"ProcedureRecord", params, body, e>>

\* ArenaPtr::null(), the env of Procedure::default().
NullPtr == <<"null">>

from_string_ptr(str) == <<"GcString", str>>

from_cons_ptr(cons) == <<"GcCons", cons>>

from_procedure_ptr(p) == <<"GcProcedure", p>>

from_environment_ptr(e) == <<"GcEnvironment", e>>

\* impl ToGcThing for Value
to_gc_thing(v) ==
    CASE v[1] = "String" -> Some(from_string_ptr(v[2]))
      [] v[1] = "Symbol" -> Some(from_string_ptr(v[2]))
      [] v[1] = "Pair" -> Some(from_cons_ptr(<<v[2], v[3]>>))
      [] v[1] = "Procedure" -> Some(from_procedure_ptr(v[2]))
      [] OTHER -> None

\* The cdr is not traced.
cons_trace_car_only(c) ==
    IF to_gc_thing(c[2]) # None THEN <<to_gc_thing(c[2])[2]>> ELSE <<>>

\* impl Trace for Cons: the results vector.
cons_trace(c) ==
    (IF to_gc_thing(c[2]) # None THEN <<to_gc_thing(c[2])[2]>> ELSE <<>>)
        \o (IF to_gc_thing(c[3]) # None THEN <<to_gc_thing(c[3])[2]>> ELSE <<>>)

\* impl Trace for Procedure: the results vector.
procedure_trace(p) ==
    (IF to_gc_thing(p[2]) # None THEN <<to_gc_thing(p[2])[2]>> ELSE <<>>)
        \o (IF to_gc_thing(p[3]) # None THEN <<to_gc_thing(p[3])[2]>> ELSE <<>>)
        \o <<from_environment_ptr(p[4])>>

(***************************************************************************)
(* The heap's well-known symbols.                                          *)
(***************************************************************************)
quote_symbol == Symbol("quote")

if_symbol == Symbol("if")

begin_symbol == Symbol("begin")

define_symbol == Symbol("define")

set_bang_symbol == Symbol("set!")

lambda_symbol == Symbol("lambda")

unspecified_symbol == Symbol("unspecified")

(***************************************************************************)
(* The lexical environment (the global scope): the names in slot order.    *)
(* Slot j of depth 0 is element j+1.                                       *)
(***************************************************************************)
\* lookup: the address of the latest binding of the name, or None.
lookup(env, name) ==
    LET hits == {k \in 1..Len(env) : env[k] = name}
    IN IF hits = {} THEN None
       ELSE <<0, (CHOOSE k \in hits : \A h \in hits : h <= k) - 1>>

\* define: always a fresh slot in the innermost scope.
define(env, name) ==
    [env |-> Append(env, name), addr |-> <<0, Len(env)>>]

(***************************************************************************)
(* eval.rs: enum MeaningData and the Meaning constructors                  *)
(***************************************************************************)
new_quotation(form) == <<"Quotation", form>>

new_reference(i, j) == <<"Reference", i, j>>

new_set_variable(i, j, val) == <<"SetVariable", i, j, val>>

new_conditional(condition, consequent, alternative) ==
    <<"Conditional", condition, consequent, alternative>>

new_sequence(first, second) == <<"Sequence", first, second>>

\* MeaningResult: Ok(meaning) or Err(message), with the environment the
\* analysis left behind (define mutates heap.environment as it goes).
MOk(m, env) == [ok |-> TRUE, m |-> m, err |-> <<>>, env |-> env]

MErr(msg, env) == [ok |-> FALSE, m |-> <<>>, err |-> msg, env |-> env]

ErrUnknownVariable(name) ==
    <<"Static error: reference to unknown variable: ", name>>

ErrCannotEvaluate(form) == <<"Static error: Cannot evaluate: ", form>>

ErrQuoted == <<"Static error: Wrong number of parts in quoted form">>

ErrDefineSymbols == <<"Static error: can only define symbols">>

ErrDefinition == <<"Static error: improperly formed definition">>

ErrSetUndefined(name) ==
    <<"Static error: cannot set! undefined variable: ", name>>

ErrSetSymbols == <<"Static error: can only set! symbols">>

ErrSet == <<"Static error: improperly formed set! expression">>

ErrIf == <<"Static error: improperly formed if expression">>

ErrSequence == <<"Static error: improperly formed sequence">>

ErrTodo == <<"TODO FITZGEN">>

(***************************************************************************)
(* eval.rs: the analyzer                                                   *)
(***************************************************************************)
RECURSIVE analyze(_, _)

is_auto_quoting_no_procedure(form) ==
    form[1] \notin {"EmptyList", "Pair", "Symbol", "Procedure"}

is_auto_quoting(form) ==
    form[1] \notin {"EmptyList", "Pair", "Symbol"}

analyze_atom(form, env) ==
    IF is_auto_quoting(form) THEN MOk(new_quotation(form), env)
    ELSE IF to_symbol(form) # None
         THEN LET sym == to_symbol(form)[2]
              IN IF lookup(env, sym) # None
                 THEN MOk(new_reference(lookup(env, sym)[1],
                                        lookup(env, sym)[2]), env)
                 ELSE MErr(ErrUnknownVariable(sym), env)
         ELSE MErr(ErrCannotEvaluate(form), env)

analyze_quoted_analyzing(form, env) ==
    IF len(form) = 2
    THEN LET inner == analyze(car(cdr(form)), env)
         IN IF inner.ok THEN MOk(new_quotation(car(cdr(form))), inner.env)
            ELSE inner
    ELSE MErr(ErrQuoted, env)

analyze_quoted(form, env) ==
    IF len(form) = 2 THEN MOk(new_quotation(car(cdr(form))), env)
    ELSE MErr(ErrQuoted, env)

analyze_definition(form, env) ==
    IF len(form) = 3
    THEN LET sym == cadr(form)
         IN IF sym = None THEN MErr(<<"bad cadr">>, env)
            ELSE IF to_symbol(sym) # None
            THEN LET def_value_form == caddr(form)
                 IN IF def_value_form = None THEN MErr(<<"bad caddr">>, env)
                    ELSE LET def_value_meaning == analyze(def_value_form, env)
                         IN IF ~def_value_meaning.ok THEN def_value_meaning
                            ELSE LET d == define(def_value_meaning.env,
                                                 to_symbol(sym)[2])
                                 IN MOk(new_set_variable(d.addr[1], d.addr[2],
                                                         def_value_meaning.m),
                                        d.env)
            ELSE MErr(ErrDefineSymbols, env)
    ELSE MErr(ErrDefinition, env)

analyze_set(form, env) ==
    IF len(form) = 3
    THEN LET sym == cadr(form)
         IN IF sym = None THEN MErr(<<"bad cadr">>, env)
            ELSE IF to_symbol(sym) # None
            THEN LET set_value_form == caddr(form)
                 IN IF set_value_form = None THEN MErr(<<"bad caddr">>, env)
                    ELSE LET set_value_meaning == analyze(set_value_form, env)
                         IN IF ~set_value_meaning.ok THEN set_value_meaning
                            ELSE LET a == lookup(set_value_meaning.env,
                                                 to_symbol(sym)[2])
                                 IN IF a # None
                                    THEN MOk(new_set_variable(
                                                 a[1], a[2],
                                                 set_value_meaning.m),
                                             set_value_meaning.env)
                                    ELSE MErr(ErrSetUndefined(to_symbol(sym)[2]),
                                              set_value_meaning.env)
            ELSE MErr(ErrSetSymbols, env)
    ELSE MErr(ErrSet, env)

analyze_lambda(form, env) == MErr(ErrTodo, env)

\* An alternative that fails to analyze is dropped, not propagated.
analyze_conditional_partial(form, env) ==
    IF len(form) = 4
    THEN LET condition_meaning == analyze(cadr(form), env)
         IN IF ~condition_meaning.ok THEN condition_meaning
            ELSE LET consequent_meaning ==
                         analyze(caddr(form), condition_meaning.env)
                 IN IF ~consequent_meaning.ok THEN consequent_meaning
                    ELSE LET alternative_meaning ==
                                 analyze(cadddr(form), consequent_meaning.env)
                         IN MOk(new_conditional(
                                    condition_meaning.m,
                                    consequent_meaning.m,
                                    IF alternative_meaning.ok
                                    THEN alternative_meaning.m
                                    ELSE new_quotation(unspecified_symbol)),
                                alternative_meaning.env)
    ELSE MErr(ErrIf, env)

analyze_conditional(form, env) ==
    IF len(form) = 4
    THEN LET condition_meaning == analyze(cadr(form), env)
         IN IF ~condition_meaning.ok THEN condition_meaning
            ELSE LET consequent_meaning ==
                         analyze(caddr(form), condition_meaning.env)
                 IN IF ~consequent_meaning.ok THEN consequent_meaning
                    ELSE LET alternative_meaning ==
                                 analyze(cadddr(form), consequent_meaning.env)
                         IN IF ~alternative_meaning.ok THEN alternative_meaning
                            ELSE MOk(new_conditional(condition_meaning.m,
                                                     consequent_meaning.m,
                                                     alternative_meaning.m),
                                     alternative_meaning.env)
    ELSE MErr(ErrIf, env)

make_meaning_sequence(forms, env) ==
    IF to_pair(forms) # None
    THEN LET first == analyze(car(forms), env)
         IN IF ~first.ok THEN first
            ELSE IF cdr(forms) = EmptyList THEN first
            ELSE LET rest == analyze(cdr(forms), first.env)
                 IN IF ~rest.ok THEN rest
                    ELSE MOk(new_sequence(first.m, rest.m), rest.env)
    ELSE MErr(ErrSequence, env)

analyze_sequence(form, env) ==
    IF cdr(form) = None THEN MErr(ErrSequence, env)
    ELSE make_meaning_sequence(cdr(form), env)

analyze_invocation(form, env) == MErr(ErrTodo, env)

analyze(form, env) ==
    IF is_atom(form) THEN analyze_atom(form, env)
    ELSE LET v == car(form)
         IN CASE v = quote_symbol -> analyze_quoted(form, env)
              [] v = define_symbol -> analyze_definition(form, env)
              [] v = set_bang_symbol -> analyze_set(form, env)
              [] v = lambda_symbol -> analyze_lambda(form, env)
              [] v = if_symbol -> analyze_conditional(form, env)
              [] v = begin_symbol -> analyze_sequence(form, env)
              [] OTHER -> analyze_invocation(form, env)

(***************************************************************************)
(* Results: SchemeResult / TrampolineResult payloads.                      *)
(***************************************************************************)
Ok(v) == <<"Ok", v>>

Err(e) == <<"Err", e>>

is_ok(r) == r[1] = "Ok"

is_err(r) == r[1] = "Err"

(***************************************************************************)
(* The global activation: slot j of depth 0 is element j+1.  A slot the    *)
(* analyzer allotted but no SetVariable has written holds Unassigned.      *)
(***************************************************************************)
Unassigned == <<"Unassigned">>

fetch(a, i, j) == IF j + 1 <= Len(a) THEN a[j + 1] ELSE Unassigned

update(a, i, j, val) ==
    [k \in 1..(IF j + 1 > Len(a) THEN j + 1 ELSE Len(a)) |->
        IF k = j + 1 THEN val
        ELSE IF k <= Len(a) THEN a[k] ELSE Unassigned]

(***************************************************************************)
(* Positions in a meaning: the path of tuple positions from the root.      *)
(***************************************************************************)
RECURSIVE SubMeaning(_, _)
SubMeaning(m, path) ==
    IF path = <<>> THEN m ELSE SubMeaning(m[Head(path)], Tail(path))

(***************************************************************************)
(* Inputs.                                                                 *)
(***************************************************************************)
MaxBegin == 3

MaxChain == 3

MaxFileLen == 2

Ints == {0, 1, 2, 3, 5}

SelfEvaluating ==
    {Integer(i) : i \in Ints}
        \cup {Boolean(FALSE), Boolean(TRUE), Character("a"), String("s"),
              Procedure(0)}

X == Symbol("x")

Y == Symbol("y")

Keywords ==
    {quote_symbol, if_symbol, begin_symbol, define_symbol, set_bang_symbol,
     lambda_symbol}

Atoms == SelfEvaluating \cup {EmptyList, X, Y} \cup Keywords

Tuples(S, n) == UNION {[1..k -> S] : k \in 0..n}

DefX(v) == list(<<define_symbol, X, v>>)

DefY(v) == list(<<define_symbol, Y, v>>)

SetX(v) == list(<<set_bang_symbol, X, v>>)

Quote(v) == list(<<quote_symbol, v>>)

Quotable ==
    Atoms \cup {list(<<X, Y>>), list(<<if_symbol, Integer(1)>>),
                list(<<set_bang_symbol, Y, Integer(1)>>),
                list(<<lambda_symbol>>), Quote(X), Pair(Integer(1), Integer(2)),
                DefX(Integer(1)), list(<<begin_symbol>>)}

QuoteForms ==
    {Quote(v) : v \in Quotable}
        \cup {list(<<quote_symbol>>), list(<<quote_symbol, Integer(1), Integer(2)>>),
              Pair(quote_symbol, Integer(1)),
              Pair(quote_symbol, Pair(Integer(1), Integer(2)))}

ValueForms ==
    {Integer(0), Integer(1), Integer(2), Integer(5), Boolean(FALSE), X, Y,
     Quote(X), Quote(EmptyList), DefX(Integer(1)), DefY(Integer(2))}

DefineForms ==
    {list(<<define_symbol, n, v>>) : n \in {X, Y, Integer(1)}, v \in ValueForms}
        \cup {list(<<define_symbol, X>>),
              list(<<define_symbol, X, Integer(1), Integer(2)>>),
              Pair(define_symbol, X)}

SetForms ==
    {list(<<set_bang_symbol, n, v>>) : n \in {X, Y, Integer(1)}, v \in ValueForms}
        \cup {list(<<set_bang_symbol, X>>),
              list(<<set_bang_symbol, X, Integer(1), Integer(2)>>),
              Pair(set_bang_symbol, X)}

Conds ==
    {Integer(0), Integer(1), Boolean(FALSE), Boolean(TRUE), Quote(EmptyList),
     X, DefX(Integer(1)), DefX(Boolean(FALSE))}

Branches ==
    {Integer(1), Integer(2), X, Y, DefX(Integer(1)), DefY(Integer(2)),
     SetX(Integer(2))}

IfForms ==
    {list(<<if_symbol, c, a, b>>) : c \in Conds, a \in Branches, b \in Branches}
        \cup {list(<<if_symbol>>), list(<<if_symbol, Integer(1), Integer(2)>>),
              list(<<if_symbol, Integer(1), Integer(2), Integer(3), Integer(5)>>)}

BeginElems ==
    {Integer(1), Integer(2), Integer(3), X, DefX(Integer(5)), DefX(Integer(1)),
     SetX(Integer(2))}

BeginForms ==
    {list(<<begin_symbol>> \o s) : s \in Tuples(BeginElems, MaxBegin)}
        \cup {Pair(begin_symbol, Integer(1))}

LambdaForms ==
    {list(<<lambda_symbol, list(<<X>>), X>>),
     list(<<lambda_symbol, EmptyList, Integer(1)>>),
     list(<<lambda_symbol, list(<<X, Y>>), X, Y>>),
     list(<<lambda_symbol, list(<<X>>)>>),
     list(<<lambda_symbol>>)}

InvocationForms ==
    {list(<<X, Integer(1)>>), list(<<Integer(1), Integer(2)>>),
     list(<<list(<<lambda_symbol, list(<<X>>), X>>), Integer(1)>>)}

\* Right-nested chains: (begin a . c) and (if a b c) with c again a chain.
\* A begin whose tail c is itself a form is what make_meaning_sequence
\* analyzes into Sequence(a, meaning of c).
ChainAtoms == {Integer(1), Boolean(FALSE)}

RECURSIVE Chains(_)
Chains(n) ==
    IF n = 0 THEN ChainAtoms
    ELSE LET inner == Chains(n - 1)
         IN {Pair(begin_symbol, Pair(a, c)) : a \in ChainAtoms, c \in inner}
                \cup {list(<<if_symbol, a, b, c>>) :
                          a \in ChainAtoms, b \in ChainAtoms, c \in inner}

ChainForms == UNION {Chains(n) : n \in 1..MaxChain}

Forms ==
    Atoms \cup QuoteForms \cup DefineForms \cup SetForms \cup IfForms
        \cup BeginForms \cup LambdaForms \cup InvocationForms \cup ChainForms

\* The reader: the forms of a source text and the parse result it ends with.
FileForms ==
    {Integer(1), X, Y, DefX(Integer(1)), SetX(Integer(2)), Quote(X),
     list(<<if_symbol, Boolean(FALSE), DefY(Integer(1)), Integer(2)>>),
     list(<<begin_symbol, Integer(1), Integer(2)>>)}

ParseOk == <<"Ok">>

ParseErr == Err(<<"parse error">>)

\* No source yet: evaluate_file has not been called.
NoSource == [readable |-> FALSE, forms |-> <<>>, parse |-> None]

Sources ==
    {[readable |-> FALSE, forms |-> <<>>, parse |-> ParseOk]}
        \cup {[readable |-> TRUE, forms |-> s, parse |-> p] :
                  s \in Tuples(FileForms, MaxFileLen), p \in {ParseOk, ParseErr}}

(***************************************************************************)
(* State.                                                                  *)
(***************************************************************************)
VARIABLES
    pc,          \* "idle", "file", "eval", "returned", "done"
    mode,        \* the entry point the host called
    source,      \* what evaluate_file was given
    reader,      \* the forms the reader has yet to produce
    result,      \* evaluate_file's `result` root
    out,         \* what the entry point returned to the host
    form,        \* the argument of the current evaluate call
    env,         \* heap.environment
    act,         \* heap.global_activation()
    meaning,     \* the analyzed meaning of `form`, <<>> if analysis failed
    stack,       \* the active Meaning::evaluate frames, innermost last
    ret,         \* the value the last finished frame returned
    evalResult,  \* what the current evaluate call returned
    \* history of the current evaluate call
    envBefore,   \* env when evaluate was called
    actBefore,   \* act when evaluate was called
    trace,       \* the positions stepped by evaluate_to_thunk, in order
    rets,        \* <<position a frame started at, value it returned>>
    \* history of the host call
    evaluated,   \* the forms evaluate was called on, in order
    results      \* what each finished evaluate call returned, in order

vars ==
    <<pc, mode, source, reader, result, out, form, env, act, meaning, stack,
      ret, evalResult, envBefore, actBefore, trace, rets, evaluated, results>>

hostVars == <<mode, source, reader, result, out>>

callVars == <<form, env, meaning, envBefore, actBefore, evaluated>>

Init ==
    /\ pc = "idle"
    /\ mode = "none"
    /\ source = NoSource
    /\ reader = <<>>
    /\ result = None
    /\ out = None
    /\ form = None
    /\ env = <<>>
    /\ act = <<>>
    /\ meaning = <<>>
    /\ stack = <<>>
    /\ ret = None
    /\ evalResult = None
    /\ envBefore = <<>>
    /\ actBefore = <<>>
    /\ trace = <<>>
    /\ rets = {}
    /\ evaluated = <<>>
    /\ results = <<>>

(***************************************************************************)
(* eval.rs: evaluate.  Analysis runs to its end first; only a meaning is   *)
(* handed to the driver.                                                   *)
(***************************************************************************)
Frame(path) == [start |-> path, cur |-> path, awaiting |-> 0]

evaluate(f) ==
    LET a == analyze(f, env)
    IN /\ form' = f
       /\ envBefore' = env
       /\ actBefore' = act
       /\ evaluated' = Append(evaluated, f)
       /\ env' = a.env
       /\ act' = act
       /\ trace' = <<>>
       /\ rets' = {}
       /\ ret' = None
       /\ IF a.ok
          THEN /\ meaning' = a.m
               /\ stack' = <<Frame(<<>>)>>
               /\ evalResult' = None
               /\ results' = results
               /\ pc' = "eval"
          ELSE /\ meaning' = <<>>
               /\ stack' = <<>>
               /\ evalResult' = Err(a.err)
               /\ results' = Append(results, Err(a.err))
               /\ pc' = "returned"

\* The outermost driver frame returned Ok(v): evaluate returns it.
evaluate_return ==
    /\ pc = "eval"
    /\ stack = <<>>
    /\ evalResult' = Ok(ret)
    /\ results' = Append(results, Ok(ret))
    /\ pc' = "returned"
    /\ UNCHANGED <<hostVars, callVars, act, stack, ret, trace, rets>>

(***************************************************************************)
(* eval.rs: Meaning::evaluate, the driver, and the evaluator functions.    *)
(* Top is the innermost driver frame; Node is the meaning it is about to   *)
(* step (self at first, then the thunk of the last step).                  *)
(***************************************************************************)
Top == stack[Len(stack)]

Node == SubMeaning(meaning, Top.cur)

Running == pc = "eval" /\ stack # <<>>

\* Trampoline::Value(v): the driver loop returns Ok(v) to its caller.
ReturnValue(v) ==
    /\ stack' = SubSeq(stack, 1, Len(stack) - 1)
    /\ ret' = v
    /\ rets' = rets \cup {<<Top.start, v>>}

\* A nested m.evaluate(heap, act) from inside an evaluator function.
CallEvaluate(child) ==
    /\ stack' = Append([stack EXCEPT ![Len(stack)].awaiting = child],
                       Frame(Append(Top.cur, child)))
    /\ ret' = None
    /\ rets' = rets

\* Trampoline::Thunk(m): the driver loop goes round with m, same frame.
ReturnThunk(child) ==
    /\ stack' = [stack EXCEPT ![Len(stack)] =
                     [@ EXCEPT !.cur = Append(@, child), !.awaiting = 0]]
    /\ ret' = None
    /\ rets' = rets

meaning_quotation_function ==
    /\ Running
    /\ Top.awaiting = 0
    /\ Node[1] = "Quotation"
    /\ trace' = Append(trace, Top.cur)
    /\ ReturnValue(Node[2])
    /\ UNCHANGED <<hostVars, callVars, act, evalResult, results, pc>>

meaning_reference_function ==
    /\ Running
    /\ Top.awaiting = 0
    /\ Node[1] = "Reference"
    /\ trace' = Append(trace, Top.cur)
    /\ ReturnValue(fetch(act, Node[2], Node[3]))
    /\ UNCHANGED <<hostVars, callVars, act, evalResult, results, pc>>

meaning_set_variable_call ==
    /\ Running
    /\ Top.awaiting = 0
    /\ Node[1] = "SetVariable"
    /\ trace' = Append(trace, Top.cur)
    /\ CallEvaluate(4)
    /\ UNCHANGED <<hostVars, callVars, act, evalResult, results, pc>>

meaning_set_variable_return ==
    /\ Running
    /\ Top.awaiting # 0
    /\ Node[1] = "SetVariable"
    /\ act' = update(act, Node[2], Node[3], ret)
    /\ ReturnValue(unspecified_symbol)
    /\ UNCHANGED <<hostVars, form, env, meaning, envBefore, actBefore,
                   evaluated, trace, evalResult, results, pc>>

meaning_conditional_call ==
    /\ Running
    /\ Top.awaiting = 0
    /\ Node[1] = "Conditional"
    /\ trace' = Append(trace, Top.cur)
    /\ CallEvaluate(2)
    /\ UNCHANGED <<hostVars, callVars, act, evalResult, results, pc>>

meaning_conditional_return_zero_false ==
    /\ Running
    /\ Top.awaiting # 0
    /\ Node[1] = "Conditional"
    /\ ReturnThunk(IF ret \in {new_boolean(FALSE), new_integer(0)}
                   THEN 4 ELSE 3)
    /\ UNCHANGED <<hostVars, callVars, act, trace, evalResult, results, pc>>

meaning_conditional_return ==
    /\ Running
    /\ Top.awaiting # 0
    /\ Node[1] = "Conditional"
    /\ ReturnThunk(IF ret = new_boolean(FALSE) THEN 4 ELSE 3)
    /\ UNCHANGED <<hostVars, callVars, act, trace, evalResult, results, pc>>

meaning_sequence_call ==
    /\ Running
    /\ Top.awaiting = 0
    /\ Node[1] = "Sequence"
    /\ trace' = Append(trace, Top.cur)
    /\ CallEvaluate(2)
    /\ UNCHANGED <<hostVars, callVars, act, evalResult, results, pc>>

\* second.evaluate(heap, act) in place of Trampoline::Thunk(second).
meaning_sequence_return_nested ==
    /\ Running
    /\ Top.awaiting # 0
    /\ Node[1] = "Sequence"
    /\ IF Top.awaiting = 2 THEN CallEvaluate(3) ELSE ReturnValue(ret)
    /\ UNCHANGED <<hostVars, callVars, act, trace, evalResult, results, pc>>

\* The thunk returned is the Sequence itself, not its second.
meaning_sequence_return_self ==
    /\ Running
    /\ Top.awaiting # 0
    /\ Node[1] = "Sequence"
    /\ stack' = [stack EXCEPT ![Len(stack)].awaiting = 0]
    /\ ret' = None
    /\ rets' = rets
    /\ UNCHANGED <<hostVars, callVars, act, trace, evalResult, results, pc>>

meaning_sequence_return ==
    /\ Running
    /\ Top.awaiting # 0
    /\ Node[1] = "Sequence"
    /\ ReturnThunk(3)
    /\ UNCHANGED <<hostVars, callVars, act, trace, evalResult, results, pc>>

(***************************************************************************)
(* The host's calls: evaluate(heap, form) and evaluate_file(heap, path),   *)
(* each on a fresh heap.                                                   *)
(***************************************************************************)
host_evaluate ==
    /\ pc = "idle"
    /\ \E f \in Forms : evaluate(f)
    /\ mode' = "evaluate"
    /\ UNCHANGED <<source, reader, result, out>>

host_evaluate_return ==
    /\ pc = "returned"
    /\ mode = "evaluate"
    /\ out' = evalResult
    /\ pc' = "done"
    /\ UNCHANGED <<mode, source, reader, result, callVars, act, stack, ret,
                   evalResult, trace, rets, results>>

\* read_from_file failed.
evaluate_file_unreadable ==
    /\ pc = "idle"
    /\ \E src \in Sources :
           /\ ~src.readable
           /\ source' = src
    /\ mode' = "evaluate_file"
    /\ out' = Err(<<"Failed to read from file">>)
    /\ pc' = "done"
    /\ UNCHANGED <<reader, result, callVars, act, stack, ret, evalResult,
                   trace, rets, results>>

evaluate_file_open ==
    /\ pc = "idle"
    /\ \E src \in Sources :
           /\ src.readable
           /\ source' = src
           /\ reader' = src.forms
    /\ mode' = "evaluate_file"
    /\ result' = EmptyList
    /\ pc' = "file"
    /\ UNCHANGED <<out, callVars, act, stack, ret, evalResult, trace, rets,
                   results>>

\* for form in reader { ... evaluate(heap, &form) ... }
evaluate_file_next ==
    /\ pc = "file"
    /\ reader # <<>>
    /\ evaluate(Head(reader))
    /\ reader' = Tail(reader)
    /\ UNCHANGED <<mode, source, result, out>>

\* result.emplace(*try!(...)): the Ok arm.
evaluate_file_emplace ==
    /\ pc = "returned"
    /\ mode = "evaluate_file"
    /\ is_ok(evalResult)
    /\ result' = evalResult[2]
    /\ pc' = "file"
    /\ UNCHANGED <<mode, source, reader, out, callVars, act, stack, ret,
                   evalResult, trace, rets, results>>

evaluate_file_try_continues ==
    /\ pc = "returned"
    /\ mode = "evaluate_file"
    /\ is_err(evalResult)
    /\ pc' = "file"
    /\ UNCHANGED <<mode, source, reader, result, out, callVars, act, stack,
                   ret, evalResult, trace, rets, results>>

\* try!(evaluate(heap, &form)): the Err arm.
evaluate_file_try ==
    /\ pc = "returned"
    /\ mode = "evaluate_file"
    /\ is_err(evalResult)
    /\ out' = evalResult
    /\ pc' = "done"
    /\ UNCHANGED <<mode, source, reader, result, callVars, act, stack, ret,
                   evalResult, trace, rets, results>>

\* The loop is over: the reader's own result decides.
evaluate_file_end ==
    /\ pc = "file"
    /\ reader = <<>>
    /\ out' = IF is_err(source.parse) THEN source.parse ELSE Ok(result)
    /\ pc' = "done"
    /\ UNCHANGED <<mode, source, reader, result, callVars, act, stack, ret,
                   evalResult, trace, rets, results>>

Next ==
    \/ host_evaluate
    \/ host_evaluate_return
    \/ evaluate_file_unreadable
    \/ evaluate_file_open
    \/ evaluate_file_next
    \/ evaluate_file_emplace
    \/ evaluate_file_try
    \/ evaluate_file_end
    \/ evaluate_return
    \/ meaning_quotation_function
    \/ meaning_reference_function
    \/ meaning_set_variable_call
    \/ meaning_set_variable_return
    \/ meaning_conditional_call
    \/ meaning_conditional_return
    \/ meaning_sequence_call
    \/ meaning_sequence_return

Spec == Init /\ [][Next]_vars

(***************************************************************************)
(* Vocabulary of the properties.                                           *)
(***************************************************************************)
\* The current evaluate call has returned.
CallFinished == evalResult # None

\* The elements of a proper list.
RECURSIVE ListElems(_)
ListElems(v) ==
    IF is_pair(v) THEN <<v[2]>> \o ListElems(v[3]) ELSE <<>>

IsProperList(v) == len(v) # LenErr

HeadedBy(f, sym) == is_pair(f) /\ car(f) = sym

\* Each form of the sequence analyzes, one after the other, from env e.
RECURSIVE AllAnalyzable(_, _)
AllAnalyzable(forms, e) ==
    \/ forms = <<>>
    \/ /\ analyze(Head(forms), e).ok
       /\ AllAnalyzable(Tail(forms), analyze(Head(forms), e).env)

\* The error of the first of the forms whose analysis fails, analyzing them
\* one after the other from env e; None if none fails.
RECURSIVE FirstError(_, _)
FirstError(forms, e) ==
    IF forms = <<>> THEN None
    ELSE LET a == analyze(Head(forms), e)
         IN IF a.ok THEN FirstError(Tail(forms), a.env) ELSE Some(a.err)

\* The subforms the analysis of a well-shaped special form descends into.
AnalyzedSubforms(f) ==
    CASE HeadedBy(f, if_symbol) /\ len(f) = 4 ->
             <<cadr(f), caddr(f), cadddr(f)>>
      [] (HeadedBy(f, define_symbol) \/ HeadedBy(f, set_bang_symbol))
             /\ len(f) = 3 /\ to_symbol(cadr(f)) # None ->
             <<caddr(f)>>
      [] HeadedBy(f, begin_symbol) /\ is_pair(cdr(f)) ->
             IF cddr(f) = EmptyList THEN <<cadr(f)>> ELSE <<cadr(f), cddr(f)>>
      [] OTHER -> <<>>

Count(seq, e) == Cardinality({k \in DOMAIN seq : seq[k] = e})

Stepped == {trace[k] : k \in DOMAIN trace}

Returned(path) == {r[2] : r \in {q \in rets : q[1] = path}}

IsAtomic(m) == m[1] \in {"Quotation", "Reference"}

\* A right-nested chain of Sequence/Conditional with atomic first/cond.
RECURSIVE IsChain(_)
IsChain(m) ==
    CASE m[1] = "Sequence" -> IsAtomic(m[2]) /\ IsChain(m[3])
      [] m[1] = "Conditional" ->
             IsAtomic(m[2]) /\ IsChain(m[3]) /\ IsChain(m[4])
      [] OTHER -> IsAtomic(m)

(***************************************************************************)
(* C1: a begin form of two or more elements, each analyzable, evaluates    *)
(* successfully to the value of its last element; (begin 1 2 3) gives 3.   *)
(***************************************************************************)
C1_BeginReturnsLast ==
    (/\ CallFinished
     /\ HeadedBy(form, begin_symbol)
     /\ IsProperList(form)
     /\ len(form) >= 3
     /\ AllAnalyzable(ListElems(cdr(form)), envBefore))
        => /\ is_ok(evalResult)
           /\ LET elems == ListElems(cdr(form))
                  last == elems[Len(elems)]
              IN last \in SelfEvaluating => evalResult = Ok(last)

(***************************************************************************)
(* C2: inside one begin, a reference to x after its define (and a later    *)
(* set!) gives the latest value: (begin (define x 5) x) is 5 and           *)
(* (begin (define x 1) (set! x 2) x) is 2.                                 *)
(***************************************************************************)
C2_ReferenceAfterDefine ==
    CallFinished =>
        /\ form = list(<<begin_symbol, DefX(Integer(5)), X>>)
               => evalResult = Ok(Integer(5))
        /\ form = list(<<begin_symbol, DefX(Integer(1)), SetX(Integer(2)), X>>)
               => evalResult = Ok(Integer(2))

(***************************************************************************)
(* C3: a three-element set! form whose name does not resolve when its      *)
(* analysis starts is the static error "cannot set! undefined variable"    *)
(* and yields no SetVariable meaning, whatever the value-form is.  Stated  *)
(* here for the value-forms that themselves analyze (one that does not     *)
(* returns its own static error before the name is looked up), among them  *)
(* a value-form that defines the name.                                     *)
(***************************************************************************)
C3_SetUndefinedIsStaticError ==
    (/\ evaluated # <<>>
     /\ HeadedBy(form, set_bang_symbol)
     /\ len(form) = 3
     /\ to_symbol(cadr(form)) # None
     /\ lookup(envBefore, to_symbol(cadr(form))[2]) = None
     /\ analyze(caddr(form), envBefore).ok)
        => /\ meaning = <<>>
           /\ evalResult = Err(ErrSetUndefined(to_symbol(cadr(form))[2]))

(***************************************************************************)
(* C4: a lambda form of at least three elements whose second element is a  *)
(* list of symbols analyzes to a Lambda meaning, not to an error.          *)
(***************************************************************************)
C4_LambdaAnalyzes ==
    (/\ evaluated # <<>>
     /\ HeadedBy(form, lambda_symbol)
     /\ IsProperList(form)
     /\ len(form) >= 3
     /\ IsProperList(cadr(form))
     /\ \A k \in DOMAIN ListElems(cadr(form)) :
            to_symbol(ListElems(cadr(form))[k]) # None)
        => /\ ~is_err(evalResult)
           /\ meaning # <<>>
           /\ meaning[1] = "Lambda"

(***************************************************************************)
(* C5: evaluate_file evaluates the reader's forms in source order; it      *)
(* returns the first evaluation error and evaluates nothing after it; with *)
(* every form evaluated it returns the reader's parse error if there is    *)
(* one, else the value of the last form.                                   *)
(***************************************************************************)
C5_EvaluateFileInOrder ==
    (mode = "evaluate_file" /\ source.readable) =>
        /\ Len(evaluated) <= Len(source.forms)
        /\ evaluated = SubSeq(source.forms, 1, Len(evaluated))
        /\ \A k \in 1..(Len(evaluated) - 1) :
               k <= Len(results) /\ is_ok(results[k])
        /\ pc = "done" =>
               IF \E k \in DOMAIN results : is_err(results[k])
               THEN out = results[Len(results)]
               ELSE /\ Len(evaluated) = Len(source.forms)
                    /\ Len(results) = Len(evaluated)
                    /\ out = IF is_err(source.parse) THEN source.parse
                             ELSE IF results = <<>> THEN Ok(EmptyList)
                             ELSE results[Len(results)]

C5_ShortCircuits ==
    /\ mode = "evaluate_file"
    /\ pc = "done"
    /\ Len(source.forms) = 2
    /\ Len(evaluated) = 1
    /\ is_err(out)
    /\ out = results[1]

(***************************************************************************)
(* C6: when the analysis of a subform fails, evaluate returns that static  *)
(* error, there is no meaning, and nothing was evaluated: no driver step   *)
(* ran and the activation is as it was when evaluate was called.           *)
(***************************************************************************)
C6_FailedAnalysisEvaluatesNothing ==
    evaluated # <<>> =>
        /\ is_err(evalResult) =>
               /\ meaning = <<>>
               /\ stack = <<>>
               /\ trace = <<>>
               /\ act = actBefore
        /\ FirstError(AnalyzedSubforms(form), envBefore) # None =>
               /\ evalResult =
                      Err(FirstError(AnalyzedSubforms(form), envBefore)[2])
               /\ meaning = <<>>
               /\ act = actBefore

C6_FailedAfterDefine ==
    /\ is_err(evalResult)
    /\ FirstError(AnalyzedSubforms(form), envBefore) # None
    /\ Len(env) > Len(envBefore)
    /\ pc = "done"

(***************************************************************************)
(* C7: a Conditional evaluates its condition exactly once, then goes on    *)
(* with the alternative iff the condition's value is Boolean(false), else  *)
(* with the consequent; the other branch is never stepped.  So             *)
(* (if #f 1 2) is 2 and (if 0 1 2) is 1.                                   *)
(***************************************************************************)
C7_ConditionalSelectsBranch ==
    /\ \A p \in Stepped :
           SubMeaning(meaning, p)[1] = "Conditional" =>
               LET cond == Append(p, 2)
                   conseq == Append(p, 3)
                   alt == Append(p, 4)
               IN /\ Count(trace, cond) <= 1
                  /\ Count(trace, conseq) + Count(trace, alt) <= 1
                  /\ Returned(cond) = {} =>
                         Count(trace, conseq) + Count(trace, alt) = 0
                  /\ \A v \in Returned(cond) :
                         /\ Count(trace, cond) = 1
                         /\ v = Boolean(FALSE) => Count(trace, conseq) = 0
                         /\ v # Boolean(FALSE) => Count(trace, alt) = 0
                         /\ CallFinished =>
                                Count(trace, conseq) + Count(trace, alt) = 1
    /\ CallFinished =>
           /\ form = list(<<if_symbol, Boolean(FALSE), Integer(1), Integer(2)>>)
                  => evalResult = Ok(Integer(2))
           /\ form = list(<<if_symbol, Integer(0), Integer(1), Integer(2)>>)
                  => evalResult = Ok(Integer(1))

C7_ZeroIsTruthy ==
    /\ form = list(<<if_symbol, Integer(0), Integer(1), Integer(2)>>)
    /\ evalResult = Ok(Integer(1))
    /\ trace = <<<<>>, <<2>>, <<3>>>>

(***************************************************************************)
(* C8: the branch of a Conditional and the second of a Sequence go back to *)
(* the driver as thunks, so a right-nested chain whose first/cond parts    *)
(* are atomic never has more than 2 driver frames active.                  *)
(***************************************************************************)
C8_ChainRunsInTwoFrames ==
    (meaning # <<>> /\ IsChain(meaning)) => Len(stack) <= 2

C8_DeepChainSecondFrame ==
    /\ meaning # <<>>
    /\ IsChain(meaning)
    /\ Len(stack) = 2
    /\ stack[1].start = <<>>
    /\ Len(stack[1].cur) = MaxChain - 1
    /\ Top.start = Append(stack[1].cur, 2)

(***************************************************************************)
(* C9: an integer, boolean, character, string or procedure evaluates to    *)
(* itself, by a single Quotation step, leaving the environment and the     *)
(* activation as they were.                                                *)
(***************************************************************************)
C9_SelfEvaluatingIsItself ==
    (/\ evaluated # <<>>
     /\ form[1] \in {"Integer", "Boolean", "Character", "String", "Procedure"})
        => /\ meaning = <<"Quotation", form>>
           /\ env = envBefore
           /\ act = actBefore
           /\ CallFinished => (evalResult = Ok(form) /\ trace = <<<<>>>>)

C9_ProcedureEvaluated ==
    /\ form = Procedure(0)
    /\ evalResult = Ok(Procedure(0))
    /\ pc = "done"

(***************************************************************************)
(* C10: (quote X) evaluates to X itself and X is never analyzed (the       *)
(* environment is untouched, unbound symbols and malformed forms inside X  *)
(* do not matter); a quote form that is not a proper list of 2 elements is *)
(* the static error "Wrong number of parts in quoted form".                *)
(***************************************************************************)
C10_QuoteReturnsFormUnanalyzed ==
    (evaluated # <<>> /\ HeadedBy(form, quote_symbol)) =>
        IF is_pair(cdr(form)) /\ cddr(form) = EmptyList
        THEN /\ meaning = <<"Quotation", cadr(form)>>
             /\ env = envBefore
             /\ act = actBefore
             /\ CallFinished =>
                    (evalResult = Ok(cadr(form)) /\ trace = <<<<>>>>)
        ELSE /\ meaning = <<>>
             /\ evalResult = Err(ErrQuoted)

C10_QuotedDefineUnanalyzed ==
    /\ form = Quote(DefX(Integer(1)))
    /\ evalResult = Ok(DefX(Integer(1)))
    /\ env = <<>>
    /\ pc = "done"

(***************************************************************************)
(* The value model on its own: the host calls Value::len, to_gc_thing or   *)
(* a record's trace on a value it holds.  `form` is the receiver, `out`    *)
(* what the call returned.                                                 *)
(***************************************************************************)
MaxListLen == 3

ListCars == {Integer(1), X, EmptyList, Pair(Integer(1), EmptyList)}

ListTails ==
    {EmptyList, Integer(2), Boolean(TRUE), Character("a"), String("s"), X,
     Procedure(0)}

\* The chain of cons cells with the given cars, ending in the given tail.
RECURSIVE chain(_, _)
chain(cars, tail) ==
    IF cars = <<>> THEN tail ELSE Pair(Head(cars), chain(Tail(cars), tail))

LenValues ==
    {chain(cars, tail) : cars \in Tuples(ListCars, MaxListLen), tail \in ListTails}

FieldValues ==
    {EmptyList, Integer(1), Boolean(TRUE), Character("a"), String("s"), X,
     Pair(Integer(1), EmptyList), Procedure(0)}

EnvPtrs == {NullPtr, <<"env", 0>>, <<"env", 1>>}

ConsRecords == {Cons(a, d) : a \in FieldValues, d \in FieldValues}

ProcedureRecords ==
    {ProcedureRecord(ps, b, e) :
         ps \in FieldValues, b \in FieldValues, e \in EnvPtrs}

HostCall(method, receiver, returned) ==
    /\ mode' = method
    /\ form' = receiver
    /\ out' = returned
    /\ pc' = "done"
    /\ UNCHANGED <<source, reader, result, env, act, meaning, stack, ret,
                   evalResult, envBefore, actBefore, trace, rets, evaluated,
                   results>>

value_len ==
    /\ pc = "idle"
    /\ \E v \in LenValues :
           HostCall("len", v,
                    IF len(v) = LenErr THEN Err(<<>>) ELSE Ok(len(v)))

value_to_gc_thing ==
    /\ pc = "idle"
    /\ \E v \in FieldValues \cup LenValues :
           HostCall("to_gc_thing", v, to_gc_thing(v))

value_cons_trace ==
    /\ pc = "idle"
    /\ \E c \in ConsRecords : HostCall("cons_trace", c, cons_trace(c))

value_procedure_trace ==
    /\ pc = "idle"
    /\ \E p \in ProcedureRecords :
           HostCall("procedure_trace", p, procedure_trace(p))

ValueNext ==
    \/ value_len
    \/ value_to_gc_thing
    \/ value_cons_trace
    \/ value_procedure_trace

ValueSpec == Init /\ [][ValueNext]_vars

(***************************************************************************)
(* C11: len is Ok(n) exactly for a proper list of n cons cells (Ok(0) for  *)
(* EmptyList) and an error for every other value: an atom, or a chain of   *)
(* pairs whose final cdr is not EmptyList.                                 *)
(***************************************************************************)
\* Where the cdr chain of v ends, and how many cells it has.
RECURSIVE FinalCdr(_)
FinalCdr(v) == IF v[1] = "Pair" THEN FinalCdr(v[3]) ELSE v

RECURSIVE CellCount(_)
CellCount(v) == IF v[1] = "Pair" THEN 1 + CellCount(v[3]) ELSE 0

C11_LenOfProperListOnly ==
    mode = "len" =>
        IF FinalCdr(form) = EmptyList
        THEN out = Ok(CellCount(form))
        ELSE is_err(out)

C11_ImproperListFails ==
    /\ mode = "len"
    /\ CellCount(form) = MaxListLen
    /\ FinalCdr(form) = Integer(2)
    /\ is_err(out)

(***************************************************************************)
(* C12: the trace of a record is exactly the handles its fields hold: a    *)
(* Value gives its own handle iff it is a String, Symbol, Pair or          *)
(* Procedure; a Cons gives those of car and cdr (at most 2); a Procedure   *)
(* those of params and body and, always, its environment handle (1 to 3).  *)
(***************************************************************************)
HeapReferencing(v) == v[1] \in {"String", "Symbol", "Pair", "Procedure"}

Members(seq) == {seq[k] : k \in DOMAIN seq}

\* The handles of the heap-referencing values among the given fields.
HandlesOf(fields) ==
    {to_gc_thing(fields[k])[2] :
         k \in {j \in DOMAIN fields : HeapReferencing(fields[j])}}

C12_TraceIsTheFieldsHandles ==
    /\ mode = "to_gc_thing" =>
           /\ (out # None) <=> HeapReferencing(form)
           /\ HeapReferencing(form) =>
                  /\ out[1] = "Some"
                  /\ out[2][1] = CASE form[1] = "Pair" -> "GcCons"
                                   [] form[1] = "Procedure" -> "GcProcedure"
                                   [] OTHER -> "GcString"
    /\ mode = "cons_trace" =>
           /\ Members(out) = HandlesOf(<<form[2], form[3]>>)
           /\ Len(out) =
                  Cardinality({k \in 2..3 : HeapReferencing(form[k])})
           /\ Len(out) <= 2
    /\ mode = "procedure_trace" =>
           /\ Members(out) =
                  HandlesOf(<<form[2], form[3]>>)
                      \cup {from_environment_ptr(form[4])}
           /\ Len(out) =
                  1 + Cardinality({k \in 2..3 : HeapReferencing(form[k])})
           /\ Len(out) >= 1
           /\ Len(out) <= 3

C12_NullEnvironmentTraced ==
    /\ mode = "procedure_trace"
    /\ form = ProcedureRecord(EmptyList, EmptyList, NullPtr)
    /\ out = <<from_environment_ptr(NullPtr)>>

(***************************************************************************)
(* C13: whenever a Reference(depth, index) is evaluated, the activation    *)
(* slot at that address has already been written by a SetVariable: a slot  *)
(* that a define created at analysis time but that was never assigned (a   *)
(* define in an untaken branch, say) is never fetched.                     *)
(***************************************************************************)
SlotWritten(j) == j + 1 <= Len(act) /\ act[j + 1] # Unassigned

\* The driver is about to step a Reference.
AtReference == Running /\ Top.awaiting = 0 /\ Node[1] = "Reference"

C13_ReferenceReadsWrittenSlot == AtReference => SlotWritten(Node[3])

(***************************************************************************)
(* C14: the driver loop terminates on every meaning analyze produces:      *)
(* each thunk a step returns is a strict sub-meaning of the meaning just   *)
(* stepped, so every evaluate that starts the driver returns.              *)
(***************************************************************************)
\* The steps of Meaning::evaluate and the return of evaluate: the host's
\* thread runs them to completion.
Drive ==
    \/ evaluate_return
    \/ meaning_quotation_function
    \/ meaning_reference_function
    \/ meaning_set_variable_call
    \/ meaning_set_variable_return
    \/ meaning_conditional_call
    \/ meaning_conditional_return
    \/ meaning_sequence_call
    \/ meaning_sequence_return

FairSpec == Spec /\ WF_vars(Drive)

RECURSIVE Size(_)
Size(m) ==
    CASE m[1] = "SetVariable" -> 1 + Size(m[4])
      [] m[1] = "Conditional" -> 1 + Size(m[2]) + Size(m[3]) + Size(m[4])
      [] m[1] = "Sequence" -> 1 + Size(m[2]) + Size(m[3])
      [] OTHER -> 1

\* A step handed a thunk back to the driver loop of the innermost frame.
Bounce ==
    /\ Running
    /\ Top.awaiting # 0
    /\ Len(stack') = Len(stack)
    /\ stack'[Len(stack')].awaiting = 0

ThunkIsStrictSubMeaning ==
    LET before == Top.cur
        after == stack'[Len(stack')].cur
    IN /\ Len(after) > Len(before)
       /\ SubSeq(after, 1, Len(before)) = before
       /\ Size(SubMeaning(meaning', after)) < Size(SubMeaning(meaning, before))

C14_DriverTerminates ==
    /\ [][Bounce => ThunkIsStrictSubMeaning]_vars
    /\ (pc = "eval") ~> (pc = "returned")

C14_ChainRanToValue ==
    /\ meaning # <<>>
    /\ IsChain(meaning)
    /\ pc = "returned"
    /\ is_ok(evalResult)
    /\ Len(trace) = 2 * MaxChain + 1
====
